---------------------------- MODULE Spec2Model ----------------------------
(***************************************************************************)
(* A model of the in-browser gesture classifier of the sign-language       *)
(* translator front end                                                    *)
(* (frontend/src/components/gesture/AdvancedGestureClassifier.tsx), and of *)
(* three components around it: the frame loop of MediaCapture.tsx, the     *)
(* backend connection of gesture/EnhancedGesturePanel.tsx and the          *)
(* recognizer life cycle of SpeechCapture.tsx.                             *)
(*                                                                         *)
(* Numbers.  The code computes on IEEE doubles.  Here every real quantity  *)
(* is a fixed-point integer:                                               *)
(*   - input coordinates are thousandths of the image (InUnit per 1.0),    *)
(*   - normalized coordinates, distances and angles (radians) are          *)
(*     ten-thousandths (FP per 1.0),                                       *)
(*   - confidences are thousandths (ConfUnit per 1.0),                     *)
(*   - stability scores are in units of 1/ScoreUnit; ScoreUnit is a        *)
(*     multiple of every window length 1..5, so the score is exact.        *)
(* The fixtures are chosen away from every threshold, so that rounding of  *)
(* the fixed-point arithmetic decides no comparison.                       *)
(***************************************************************************)
EXTENDS Integers, Sequences, FiniteSets, TLC

VARIABLES
    gestureHistory,      \* private gestureHistory: string[]
    confidenceHistory,   \* private confidenceHistory: number[]
    stabilityThreshold,  \* private stabilityThreshold = 0.85
    historySize,         \* private historySize = 15
    inputs,              \* the frames given to classifyGesture so far, oldest first
    result,              \* what the last classifyGesture call returned
    lastScore,           \* the stability score computed by the last call
    callerLandmarks,     \* the caller's array as the last call left it
    other,               \* a second classifier instance, and its last call
    otherInputs,         \* the frames given to the second instance so far
    loop,                \* MediaCapture: the refs of the frame loop
    panel,               \* EnhancedGesturePanel: method, sockets and timers
    speech,              \* SpeechCapture: state, refs, recognizer and timers
    drawn                \* finger states and features given to steps 2 to 4

vars == <<gestureHistory, confidenceHistory, stabilityThreshold, historySize,
          inputs, result, lastScore, callerLandmarks, other, otherInputs,
          loop, panel, speech, drawn>>

\* the two classifier instances
classifierVars ==
    <<gestureHistory, confidenceHistory, stabilityThreshold, historySize,
      inputs, result, lastScore, callerLandmarks, other, otherInputs>>

\* the components around the classifier, and the drawn finger states
outerVars == <<loop, panel, speech, drawn>>

(***************************************************************************)
(* Bounds of the model.                                                    *)
(***************************************************************************)
MaxCalls == 5        \* calls per run when every fixture may be submitted
MaxLongCalls == 17   \* calls per run when two letter poses are submitted
MaxRuleCalls == 3    \* calls per run when one pose per primary rule is submitted
MaxTwinCalls == 3    \* calls per run and instance when two instances are compared
MaxOrderCalls == 6   \* calls per run and instance when the order of frames differs
MaxGateCalls == 6    \* calls per run when the poses of three confidences are submitted
MaxDrawnCalls == 1   \* calls per run on finger states drawn from all combinations
MaxLoopFrames == 17  \* video frames per run of the frame loop
MaxSockets == 3      \* WebSockets created per run of the panel
MaxTimers == 2       \* pending restart timers of one kind in SpeechCapture
MaxMixedFrames == 10 \* the frames of a run during which the pose may change

(***************************************************************************)
(* Fixed-point units.                                                      *)
(***************************************************************************)
InUnit == 1000
FP == 10000
ConfUnit == 1000
ScoreUnit == 600 * ConfUnit

\* a literal of the code given in thousandths, e.g. 0.015 is Milli(15)
Milli(n) == (n * FP) \div 1000

Abs(a) == IF a < 0 THEN -a ELSE a
Min2(a, b) == IF a < b THEN a ELSE b
Max2(a, b) == IF a > b THEN a ELSE b

\* rounded-down quotient that is symmetric around 0, as the double quotient is
DivFP(a, b) == IF a >= 0 THEN a \div b ELSE -((-a) \div b)

RECURSIVE SqrtSearch(_, _, _)
SqrtSearch(v, lo, hi) ==
    IF lo >= hi THEN lo
    ELSE LET mid == (lo + hi + 1) \div 2
         IN  IF mid * mid <= v THEN SqrtSearch(v, mid, hi)
                               ELSE SqrtSearch(v, lo, mid - 1)

\* Math.sqrt on fixed-point squares: the root of v (units FP*FP) in units FP
Sqrt(v) == SqrtSearch(v, 0, 46340)

PiFP == (31416 * FP) \div 10000
HalfPiFP == (15708 * FP) \div 10000

\* u * u * ... in fixed point
MulFP(a, b) == DivFP(a * b, FP)

\* arctan of u for 0 <= u <= 0.25, by its Taylor series
\* u - u^3/3 + u^5/5 - u^7/7, where u2 is u * u
AtanTerms(u, u2) ==
    u - MulFP(MulFP(u, u2),
              (FP \div 3) - MulFP(u2, (FP \div 5) - (u2 \div 7)))
AtanSeries(u) == AtanTerms(u, MulFP(u, u))

\* the half-angle substitution: atan(t) = 2 * atan(t / (1 + sqrt(1 + t^2)))
HalfArg(t) == (t * FP) \div (FP + Sqrt(FP * FP + t * t))

\* arctan of t for 0 <= t <= 1
AtanUnit(t) == 4 * AtanSeries(HalfArg(HalfArg(t)))

\* arctan of ay / ax for ax, ay >= 0, in [0, pi/2]
AtanQuadrant(ay, ax) ==
    IF ax = 0 /\ ay = 0 THEN 0
    ELSE IF ay <= ax THEN AtanUnit((ay * FP) \div ax)
    ELSE HalfPiFP - AtanUnit((ax * FP) \div ay)

\* the angle a of the first quadrant, placed by the signs of x and y
AtanPlaced(a, y, x) ==
    IF y < 0 THEN (IF x < 0 THEN a - PiFP ELSE -a)
    ELSE (IF x < 0 THEN PiFP - a ELSE a)

\* Math.atan2(y, x) in radians (units FP), in (-pi, pi]
Atan2(y, x) == AtanPlaced(AtanQuadrant(Abs(y), Abs(x)), y, x)

(***************************************************************************)
(* Landmarks.  The code indexes the 21 points from 0; At keeps its indices.*)
(***************************************************************************)
P(px, py, pz) == [x |-> px, y |-> py, z |-> pz]
At(landmarks, i) == landmarks[i + 1]

fingerTips == <<4, 8, 12, 16, 20>>
fingerBases == <<1, 5, 9, 13, 17>>
knuckles == <<2, 5, 9, 13, 17>>

RECURSIVE FoldMin(_, _, _)
FoldMin(s, i, acc) ==
    IF i > Len(s) THEN acc ELSE FoldMin(s, i + 1, Min2(acc, s[i]))
RECURSIVE FoldMax(_, _, _)
FoldMax(s, i, acc) ==
    IF i > Len(s) THEN acc ELSE FoldMax(s, i + 1, Max2(acc, s[i]))
RECURSIVE SumSeq(_, _)
SumSeq(s, i) == IF i > Len(s) THEN 0 ELSE s[i] + SumSeq(s, i + 1)

\* faulty variant: the fallback is one input unit, a thousandth of 1
orOneInputUnit(m) == IF m = 0 THEN 1 ELSE m

\* Math.max(scaleX, scaleY) || 1 (input units)
orOne(m) == IF m = 0 THEN InUnit ELSE m

\* faulty variant: the extent is taken from the image origin (minX and minY
\* are not subtracted)
normalizeScaleFromOrigin(landmarks) ==
    LET wrist == At(landmarks, 0)
        xs == [i \in 1..Len(landmarks) |-> landmarks[i].x]
        ys == [i \in 1..Len(landmarks) |-> landmarks[i].y]
    IN  orOne(Max2(FoldMax(xs, 1, wrist.x), FoldMax(ys, 1, wrist.y)))

\* the divisor of the normalization: the larger side of the bounding box of
\* the x and y coordinates, or 1 when it is 0
normalizeScale(landmarks) ==
    LET wrist == At(landmarks, 0)
        xs == [i \in 1..Len(landmarks) |-> landmarks[i].x]
        ys == [i \in 1..Len(landmarks) |-> landmarks[i].y]
        scaleX == FoldMax(xs, 1, wrist.x) - FoldMin(xs, 1, wrist.x)
        scaleY == FoldMax(ys, 1, wrist.y) - FoldMin(ys, 1, wrist.y)
    IN  orOne(Max2(scaleX, scaleY))

\* the map of the return statement: wrist-relative coordinates over the scale
relativeTo(landmarks, wrist, scale) ==
    [i \in 1..Len(landmarks) |->
        [x |-> DivFP((landmarks[i].x - wrist.x) * FP, scale),
         y |-> DivFP((landmarks[i].y - wrist.y) * FP, scale),
         z |-> DivFP((landmarks[i].z - wrist.z) * FP, scale)]]

\* wrist-relative coordinates divided by the scale (units FP)
normalizeLandmarks(landmarks) ==
    relativeTo(landmarks, At(landmarks, 0), normalizeScale(landmarks))

Dist3(a, b) ==
    Sqrt((a.x - b.x) * (a.x - b.x) + (a.y - b.y) * (a.y - b.y)
         + (a.z - b.z) * (a.z - b.z))
Dist2(a, b) ==
    Sqrt((a.x - b.x) * (a.x - b.x) + (a.y - b.y) * (a.y - b.y))

\* the palm curvature: the sum over the three interior knuckles of the
\* absolute difference of the directions of the two adjacent segments
handCurvature(landmarks) ==
    LET turn(i) ==
            LET p1 == At(landmarks, knuckles[i - 1])
                p2 == At(landmarks, knuckles[i])
                p3 == At(landmarks, knuckles[i + 1])
                angle1 == Atan2(p2.y - p1.y, p2.x - p1.x)
                angle2 == Atan2(p3.y - p2.y, p3.x - p2.x)
            IN  Abs(angle2 - angle1)
    IN  turn(2) + turn(3) + turn(4)

\* faulty variant: the angles are pushed before the tip distances
extractGeometricFeaturesAnglesFirst(landmarks) ==
    LET palmCenter == At(landmarks, 0)
        tipDistances == [i \in 1..5 |-> Dist3(At(landmarks, fingerTips[i]), palmCenter)]
        angles == [i \in 1..5 |->
                     LET base == At(landmarks, fingerBases[i])
                         tip == At(landmarks, fingerTips[i])
                     IN  Atan2(tip.y - base.y, tip.x - base.x)]
        interFinger == [i \in 1..4 |->
                     Dist2(At(landmarks, fingerTips[i + 1]), At(landmarks, fingerTips[i]))]
    IN  angles \o tipDistances \o interFinger \o <<handCurvature(landmarks)>>

\* 5 tip distances from the wrist, 5 finger angles, 4 distances of adjacent
\* tips, 1 curvature, in this order
extractGeometricFeatures(landmarks) ==
    LET palmCenter == At(landmarks, 0)
        tipDistances == [i \in 1..5 |-> Dist3(At(landmarks, fingerTips[i]), palmCenter)]
        angles == [i \in 1..5 |->
                     LET base == At(landmarks, fingerBases[i])
                         tip == At(landmarks, fingerTips[i])
                     IN  Atan2(tip.y - base.y, tip.x - base.x)]
        interFinger == [i \in 1..4 |->
                     Dist2(At(landmarks, fingerTips[i + 1]), At(landmarks, fingerTips[i]))]
    IN  tipDistances \o angles \o interFinger \o <<handCurvature(landmarks)>>

calculateFingerAngles(landmarks) ==
    [i \in 1..5 |->
        LET base == At(landmarks, fingerBases[i])
            tip == At(landmarks, fingerTips[i])
        IN  Atan2(tip.y - base.y, tip.x - base.x)]

calculateFingerDistances(landmarks) ==
    [i \in 1..5 |-> Dist2(At(landmarks, fingerTips[i]), At(landmarks, 0))]

calculateHandOrientation(landmarks) ==
    LET wrist == At(landmarks, 0)
        middleFinger == At(landmarks, 9)
    IN  IF middleFinger.x > wrist.x + Milli(20) THEN "right"
        ELSE IF middleFinger.x < wrist.x - Milli(20) THEN "left"
        ELSE "unknown"

calculateHandOpenness(landmarks) ==
    SumSeq([i \in 1..5 |-> Dist2(At(landmarks, fingerTips[i]), At(landmarks, 0))], 1)
        \div Len(fingerTips)

calculateWristAngle(landmarks) ==
    LET wrist == At(landmarks, 0)
        middleBase == At(landmarks, 9)
    IN  Atan2(middleBase.y - wrist.y, middleBase.x - wrist.x)

calculateAdvancedFingerStates(landmarks) ==
    [thumbExtended  |-> At(landmarks, 4).x > At(landmarks, 3).x + Milli(15),
     thumbUp        |-> At(landmarks, 4).y < At(landmarks, 3).y - Milli(10),
     thumbCurled    |-> At(landmarks, 4).y > At(landmarks, 3).y + Milli(15),
     indexExtended  |-> At(landmarks, 8).y < At(landmarks, 6).y - Milli(15),
     indexCurled    |-> At(landmarks, 8).y > At(landmarks, 6).y + Milli(15),
     middleExtended |-> At(landmarks, 12).y < At(landmarks, 10).y - Milli(15),
     middleCurled   |-> At(landmarks, 12).y > At(landmarks, 10).y + Milli(15),
     ringExtended   |-> At(landmarks, 16).y < At(landmarks, 14).y - Milli(15),
     ringCurled     |-> At(landmarks, 16).y > At(landmarks, 14).y + Milli(15),
     pinkyExtended  |-> At(landmarks, 20).y < At(landmarks, 18).y - Milli(15),
     pinkyCurled    |-> At(landmarks, 20).y > At(landmarks, 18).y + Milli(15),
     palmFacing     |-> At(landmarks, 9).z > At(landmarks, 0).z + Milli(10),
     handOrientation |-> calculateHandOrientation(landmarks),
     fingerAngles   |-> calculateFingerAngles(landmarks),
     fingerDistances |-> calculateFingerDistances(landmarks),
     handOpenness   |-> calculateHandOpenness(landmarks),
     wristAngle     |-> calculateWristAngle(landmarks)]

(***************************************************************************)
(* The two layers of the classification.  An absent value (null, or an     *)
(* optional field that is not set) is Null resp. Undefined.                *)
(***************************************************************************)
Null == [null |-> TRUE]
Undefined == "undefined"

CONFUSION_GROUPS ==
    [group1 |-> {"D", "R", "U"},
     group2 |-> {"T", "K", "D", "I"},
     group3 |-> {"S", "M", "N"},
     group4 |-> {"C", "O"},
     group5 |-> {"B", "F"},
     group6 |-> {"P", "Q"},
     group7 |-> {"V", "W"},
     group8 |-> {"G", "H"}]

isInConfusionGroup(gesture) ==
    \E group \in DOMAIN CONFUSION_GROUPS : gesture \in CONFUSION_GROUPS[group]

\* the object literal that every primary rule returns
PrimaryResult(letter, conf, geometricFeatures) ==
    [primaryGesture |-> letter,
     confidence |-> conf,
     secondaryClassification |-> Undefined,
     confusionGroup |-> Undefined,
     geometricFeatures |-> geometricFeatures,
     stabilityScore |-> 0]

\* A: closed fist with thumb on side
ruleA(fingerStates) ==
    /\ ~fingerStates.indexExtended /\ ~fingerStates.middleExtended
    /\ ~fingerStates.ringExtended /\ ~fingerStates.pinkyExtended
    /\ fingerStates.thumbExtended /\ fingerStates.handOpenness < Milli(300)

\* faulty variant: the negation of thumbExtended is missing
ruleBThumbOut(fingerStates) ==
    /\ fingerStates.indexExtended /\ fingerStates.middleExtended
    /\ fingerStates.ringExtended /\ fingerStates.pinkyExtended
    /\ fingerStates.thumbExtended /\ fingerStates.handOpenness > Milli(700)

\* B: four fingers up, thumb tucked
ruleB(fingerStates) ==
    /\ fingerStates.indexExtended /\ fingerStates.middleExtended
    /\ fingerStates.ringExtended /\ fingerStates.pinkyExtended
    /\ ~fingerStates.thumbExtended /\ fingerStates.handOpenness > Milli(700)

\* C: curved hand shape; the curvature is the last feature
ruleC(fingerStates, geometricFeatures) ==
    /\ fingerStates.thumbUp /\ fingerStates.indexCurled
    /\ fingerStates.handOpenness > Milli(400)
    /\ fingerStates.handOpenness < Milli(800)
    /\ geometricFeatures[Len(geometricFeatures)] > Milli(500)

\* faulty variant: the middle finger is not looked at
ruleDAnyMiddle(fingerStates) ==
    /\ fingerStates.indexExtended
    /\ ~fingerStates.ringExtended /\ ~fingerStates.pinkyExtended
    /\ fingerStates.thumbExtended

\* D: index pointing up
ruleD(fingerStates) ==
    /\ fingerStates.indexExtended /\ ~fingerStates.middleExtended
    /\ ~fingerStates.ringExtended /\ ~fingerStates.pinkyExtended
    /\ fingerStates.thumbExtended

\* E: closed fist, thumb down
ruleE(fingerStates) ==
    /\ ~fingerStates.indexExtended /\ ~fingerStates.middleExtended
    /\ ~fingerStates.ringExtended /\ ~fingerStates.pinkyExtended
    /\ fingerStates.thumbCurled

\* F: OK-like shape with index and thumb
ruleF(fingerStates) ==
    /\ fingerStates.thumbExtended /\ fingerStates.indexCurled
    /\ fingerStates.middleExtended /\ fingerStates.ringExtended
    /\ fingerStates.pinkyExtended

\* faulty variant: the return null at the end is missing and the last rule's
\* result is returned
primaryClassificationNoNull(fingerStates, geometricFeatures) ==
    IF ruleA(fingerStates) THEN PrimaryResult("A", 920, geometricFeatures)
    ELSE IF ruleB(fingerStates) THEN PrimaryResult("B", 900, geometricFeatures)
    ELSE IF ruleC(fingerStates, geometricFeatures)
         THEN PrimaryResult("C", 880, geometricFeatures)
    ELSE IF ruleD(fingerStates) THEN PrimaryResult("D", 890, geometricFeatures)
    ELSE IF ruleE(fingerStates) THEN PrimaryResult("E", 850, geometricFeatures)
    ELSE PrimaryResult("F", 870, geometricFeatures)

\* faulty variant: the rules for E and F are tested before those for A and C
primaryClassificationReordered(fingerStates, geometricFeatures) ==
    IF ruleE(fingerStates) THEN PrimaryResult("E", 850, geometricFeatures)
    ELSE IF ruleF(fingerStates) THEN PrimaryResult("F", 870, geometricFeatures)
    ELSE IF ruleA(fingerStates) THEN PrimaryResult("A", 920, geometricFeatures)
    ELSE IF ruleB(fingerStates) THEN PrimaryResult("B", 900, geometricFeatures)
    ELSE IF ruleC(fingerStates, geometricFeatures)
         THEN PrimaryResult("C", 880, geometricFeatures)
    ELSE IF ruleD(fingerStates) THEN PrimaryResult("D", 890, geometricFeatures)
    ELSE Null

primaryClassification(fingerStates, geometricFeatures) ==
    IF ruleA(fingerStates) THEN PrimaryResult("A", 920, geometricFeatures)
    ELSE IF ruleB(fingerStates) THEN PrimaryResult("B", 900, geometricFeatures)
    ELSE IF ruleC(fingerStates, geometricFeatures)
         THEN PrimaryResult("C", 880, geometricFeatures)
    ELSE IF ruleD(fingerStates) THEN PrimaryResult("D", 890, geometricFeatures)
    ELSE IF ruleE(fingerStates) THEN PrimaryResult("E", 850, geometricFeatures)
    ELSE IF ruleF(fingerStates) THEN PrimaryResult("F", 870, geometricFeatures)
    ELSE Null

SecondaryResult(letter, conf, method, group) ==
    [gesture |-> letter, confidence |-> conf, method |-> method, group |-> group]

\* Group 1: {D, R, U}
secondaryDRU(primaryGesture, fingerStates, geometricFeatures) ==
    IF primaryGesture \notin {"D", "R", "U"} THEN Null
    ELSE LET indexAngle == fingerStates.fingerAngles[2]
             thumbPosition == geometricFeatures[1]
         IN  IF indexAngle > -Milli(500) /\ indexAngle < Milli(500)
                /\ thumbPosition > Milli(50)
             THEN SecondaryResult("D", 910, "angle_analysis", "DRU")
             ELSE IF indexAngle > Milli(500) /\ fingerStates.middleExtended
             THEN SecondaryResult("R", 890, "angle_analysis", "DRU")
             ELSE IF indexAngle < -Milli(500) /\ fingerStates.middleExtended
             THEN SecondaryResult("U", 880, "angle_analysis", "DRU")
             ELSE Null

\* Group 2: {T, K, D, I}
secondaryTKDI(primaryGesture, fingerStates, geometricFeatures) ==
    IF primaryGesture \notin {"T", "K", "D", "I"} THEN Null
    ELSE LET thumbIndexDistance == Abs(geometricFeatures[1] - geometricFeatures[2])
         IN  IF thumbIndexDistance < Milli(20) /\ ~fingerStates.indexExtended
             THEN SecondaryResult("T", 900, "distance_analysis", "TKDI")
             ELSE IF /\ fingerStates.indexExtended /\ fingerStates.middleExtended
                     /\ thumbIndexDistance > Milli(50)
             THEN SecondaryResult("K", 870, "distance_analysis", "TKDI")
             ELSE IF fingerStates.indexExtended /\ ~fingerStates.middleExtended
             THEN SecondaryResult("I", 890, "distance_analysis", "TKDI")
             ELSE Null

\* Group 3: {S, M, N}
secondarySMN(primaryGesture, fingerStates, geometricFeatures) ==
    IF primaryGesture \notin {"S", "M", "N"} THEN Null
    ELSE LET handOpenness == fingerStates.handOpenness
             thumbPosition == fingerStates.thumbExtended
         IN  IF handOpenness < Milli(200) /\ ~thumbPosition
             THEN SecondaryResult("S", 920, "openness_analysis", "SMN")
             ELSE IF handOpenness < Milli(300) /\ thumbPosition
             THEN SecondaryResult("M", 880, "openness_analysis", "SMN")
             ELSE IF handOpenness < Milli(400)
             THEN SecondaryResult("N", 860, "openness_analysis", "SMN")
             ELSE Null

\* faulty variant: a letter whose group has no sub-case gets a default answer
secondaryClassificationDefault(primaryGesture, fingerStates, geometricFeatures) ==
    LET g1 == secondaryDRU(primaryGesture, fingerStates, geometricFeatures)
        g2 == secondaryTKDI(primaryGesture, fingerStates, geometricFeatures)
        g3 == secondarySMN(primaryGesture, fingerStates, geometricFeatures)
    IN  IF g1 # Null THEN g1 ELSE IF g2 # Null THEN g2 ELSE IF g3 # Null THEN g3
        ELSE SecondaryResult(primaryGesture, 500, "none", "none")

\* the three groups are tried in this order; the first that returns decides
secondaryClassification(primaryGesture, fingerStates, geometricFeatures) ==
    LET g1 == secondaryDRU(primaryGesture, fingerStates, geometricFeatures)
        g2 == secondaryTKDI(primaryGesture, fingerStates, geometricFeatures)
        g3 == secondarySMN(primaryGesture, fingerStates, geometricFeatures)
    IN  IF g1 # Null THEN g1 ELSE IF g2 # Null THEN g2 ELSE g3

\* faulty variant: the group of the discriminator is not recorded
revisedResultNoGroup(primaryResult, secondaryResult) ==
    IF secondaryResult # Null
    THEN [primaryResult EXCEPT
            !.primaryGesture = secondaryResult.gesture,
            !.confidence =
                (primaryResult.confidence + secondaryResult.confidence) \div 2,
            !.secondaryClassification = secondaryResult.method]
    ELSE primaryResult

\* faulty variant: the confidence of the primary rule is kept
revisedResultPrimaryConfidence(primaryResult, secondaryResult) ==
    IF secondaryResult # Null
    THEN [primaryResult EXCEPT
            !.primaryGesture = secondaryResult.gesture,
            !.secondaryClassification = secondaryResult.method,
            !.confusionGroup = secondaryResult.group]
    ELSE primaryResult

\* step 3, the object spread: the primary result revised by the secondary one
revisedResult(primaryResult, secondaryResult) ==
    IF secondaryResult # Null
    THEN [primaryResult EXCEPT
            !.primaryGesture = secondaryResult.gesture,
            !.confidence =
                (primaryResult.confidence + secondaryResult.confidence) \div 2,
            !.secondaryClassification = secondaryResult.method,
            !.confusionGroup = secondaryResult.group]
    ELSE primaryResult

\* step 3: the secondary pass runs when the primary letter is in a group
secondLayer(primaryResult, fingerStates, geometricFeatures) ==
    IF primaryResult # Null /\ isInConfusionGroup(primaryResult.primaryGesture)
    THEN revisedResult(primaryResult,
                       secondaryClassification(primaryResult.primaryGesture,
                                               fingerStates, geometricFeatures))
    ELSE primaryResult

\* steps 2 and 3 on the finger states and features of a frame
twoLayers(fingerStates, geometricFeatures) ==
    secondLayer(primaryClassification(fingerStates, geometricFeatures),
                fingerStates, geometricFeatures)

\* step 1 on the normalized landmarks, then steps 2 and 3
classifyNormalized(normalizedLandmarks) ==
    twoLayers(calculateAdvancedFingerStates(normalizedLandmarks),
              extractGeometricFeatures(normalizedLandmarks))

\* steps 1 to 3 of classifyGesture for a frame of 21 landmarks: the value of
\* finalResult before the stability analysis
finalResultOf(landmarks) == classifyNormalized(normalizeLandmarks(landmarks))

\* steps 1 and 2 on the normalized landmarks
primaryNormalized(normalizedLandmarks) ==
    primaryClassification(calculateAdvancedFingerStates(normalizedLandmarks),
                          extractGeometricFeatures(normalizedLandmarks))

\* the primary result alone (step 2)
primaryResultOf(landmarks) == primaryNormalized(normalizeLandmarks(landmarks))

(***************************************************************************)
(* The stability analysis.                                                 *)
(***************************************************************************)
WindowSize == 5

\* faulty variant: the shift is missing
pushHistoryNoShift(history, entry, size) == Append(history, entry)

\* faulty variant: pop() in the place of shift(): the entry just pushed is removed
pushHistoryPop(history, entry, size) ==
    LET pushed == Append(history, entry)
    IN  IF Len(pushed) > size THEN SubSeq(pushed, 1, Len(pushed) - 1) ELSE pushed

\* push, then shift when the array is longer than historySize
pushHistory(history, entry, size) ==
    LET pushed == Append(history, entry)
    IN  IF Len(pushed) > size THEN Tail(pushed) ELSE pushed

\* faulty variant: the slice is missing, the window is the whole history
recentWindowWhole(history) == history

\* faulty variant: the slice takes the last 6 entries
recentWindowSix(history) ==
    SubSeq(history, Max2(1, Len(history) - WindowSize), Len(history))

\* history.slice(-5)
recentWindow(history) ==
    SubSeq(history, Max2(1, Len(history) - WindowSize + 1), Len(history))

\* faulty variant: the two weights are exchanged
weightedScoreExchanged(consistentGestures, confidenceSum, n) ==
    (((4 * ScoreUnit) \div 10) * consistentGestures
       + ((6 * ScoreUnit) \div (10 * ConfUnit)) * confidenceSum) \div n

\* faulty variant: both weights are 0.5
weightedScoreEven(consistentGestures, confidenceSum, n) ==
    (((5 * ScoreUnit) \div 10) * consistentGestures
       + ((5 * ScoreUnit) \div (10 * ConfUnit)) * confidenceSum) \div n

\* consistency * 0.6 + avgConfidence * 0.4 in units of 1/ScoreUnit
weightedScore(consistentGestures, confidenceSum, n) ==
    (((6 * ScoreUnit) \div 10) * consistentGestures
       + ((4 * ScoreUnit) \div (10 * ConfUnit)) * confidenceSum) \div n

\* faulty variant: confidenceHistory is pushed to but never shifted
calculateStabilityScoreOneShift(gHistory, cHistory, size, gesture, confidence) ==
    LET gh == pushHistory(gHistory, gesture, size)
        ch == Append(cHistory, confidence)
        recentGestures == recentWindow(gh)
        consistentGestures ==
            Cardinality({i \in 1..Len(recentGestures) : recentGestures[i] = gesture})
        recentConfidence == recentWindow(ch)
    IN  [gestureHistory |-> gh,
         confidenceHistory |-> ch,
         score |-> weightedScore(consistentGestures, SumSeq(recentConfidence, 1),
                                 Len(recentGestures))]

\* the histories after the call, and the score it returns
calculateStabilityScore(gHistory, cHistory, size, gesture, confidence) ==
    LET gh == pushHistory(gHistory, gesture, size)
        ch == pushHistory(cHistory, confidence, size)
        recentGestures == recentWindow(gh)
        consistentGestures ==
            Cardinality({i \in 1..Len(recentGestures) : recentGestures[i] = gesture})
        recentConfidence == recentWindow(ch)
    IN  [gestureHistory |-> gh,
         confidenceHistory |-> ch,
         score |-> weightedScore(consistentGestures, SumSeq(recentConfidence, 1),
                                 Len(recentGestures))]

\* faulty variant: the gate compares with 0 and not with the threshold
passesGateAnyScore(score, threshold) == score > 0

\* stabilityScore > this.stabilityThreshold
passesGate(score, threshold) == score > threshold

(***************************************************************************)
(* The frames given to the classifier: hand poses as the landmark detector *)
(* delivers them (thousandths of the image, y growing downwards, the wrist *)
(* first, then four points per finger from the base to the tip).           *)
(***************************************************************************)
Wrist == <<P(500, 900, 0)>>
ThumbTucked ==
    <<P(450, 840, 0), P(440, 760, 0),
      P(470, 700, 0), P(465, 660, 0)>>
ThumbOut ==
    <<P(540, 840, 0), P(580, 780, 0),
      P(610, 730, 0), P(640, 690, 0)>>
IndexUp ==
    <<P(460, 640, 0), P(455, 520, 0),
      P(452, 420, 0), P(450, 330, 0)>>
IndexSideways ==
    <<P(460, 640, 0), P(520, 630, 0),
      P(600, 615, 0), P(680, 600, 0)>>
IndexCurled ==
    <<P(460, 640, 0), P(455, 560, 0),
      P(460, 600, 0), P(465, 640, 0)>>
MiddleUp ==
    <<P(500, 630, 0), P(500, 500, 0),
      P(500, 390, 0), P(500, 300, 0)>>
MiddleCurled ==
    <<P(500, 630, 0), P(500, 550, 0),
      P(502, 595, 0), P(504, 640, 0)>>
RingUp ==
    <<P(540, 640, 0), P(545, 520, 0),
      P(548, 420, 0), P(550, 340, 0)>>
RingCurled ==
    <<P(540, 640, 0), P(545, 565, 0),
      P(545, 605, 0), P(545, 645, 0)>>
PinkyUp ==
    <<P(580, 670, 0), P(590, 570, 0),
      P(595, 490, 0), P(600, 420, 0)>>
PinkyCurled ==
    <<P(580, 670, 0), P(588, 600, 0),
      P(586, 635, 0), P(584, 670, 0)>>

\* thumb lying over the heel of the hand: tip to the right of its joint
ThumbOverPalm ==
    <<P(530, 880, 0), P(545, 875, 0),
      P(530, 870, 0), P(560, 860, 0)>>
\* the same, the tip to the right of and below its joint
ThumbOverPalmDown ==
    <<P(530, 880, 0), P(545, 860, 0),
      P(530, 830, 0), P(560, 860, 0)>>
\* thumb bent down, the tip to the left of and below its joint
ThumbDown ==
    <<P(530, 880, 0), P(545, 860, 0),
      P(540, 830, 0), P(530, 860, 0)>>
\* thumb pointing sideways, the tip not above its joint
ThumbFlat ==
    <<P(540, 840, 0), P(580, 780, 0),
      P(610, 730, 0), P(640, 735, 0)>>
\* thumb pointing to the camera: the tip over the wrist in the image, nearer
\* to the camera in depth
ThumbNear ==
    <<P(480, 898, 0), P(486, 897, 0),
      P(490, 896, 0), P(506, 894, 20)>>
\* fingers folded back so that the tips lie near the wrist
IndexFolded ==
    <<P(460, 640, 0), P(455, 560, 0),
      P(470, 700, 0), P(480, 830, 0)>>
MiddleFolded ==
    <<P(500, 630, 0), P(500, 550, 0),
      P(502, 700, 0), P(504, 835, 0)>>
RingFolded ==
    <<P(540, 640, 0), P(545, 565, 0),
      P(535, 700, 0), P(525, 840, 0)>>
PinkyFolded ==
    <<P(580, 670, 0), P(588, 600, 0),
      P(570, 720, 0), P(545, 845, 0)>>

\* four fingers up, thumb tucked
PoseB == Wrist \o ThumbTucked \o IndexUp \o MiddleUp \o RingUp \o PinkyUp
\* the canonical D: index pointing up, the other fingers curled, thumb out
PoseDUp == Wrist \o ThumbOut \o IndexUp \o MiddleCurled \o RingCurled \o PinkyCurled
\* index pointing sideways (rising slightly), the other fingers curled, thumb out
PoseDSide == Wrist \o ThumbOut \o IndexSideways \o MiddleCurled \o RingCurled \o PinkyCurled
\* index and middle up, thumb tucked: no rule of the primary layer matches
PoseV == Wrist \o ThumbTucked \o IndexUp \o MiddleUp \o RingCurled \o PinkyCurled

\* folded fist, thumb tip beside its joint
PoseA == Wrist \o ThumbOverPalm \o IndexFolded \o MiddleFolded \o RingFolded \o PinkyFolded
\* folded fist, thumb tip beside and below its joint
PoseAE ==
    Wrist \o ThumbOverPalmDown \o IndexFolded \o MiddleFolded \o RingFolded \o PinkyFolded
\* folded fist, thumb bent down
PoseE == Wrist \o ThumbDown \o IndexFolded \o MiddleFolded \o RingFolded \o PinkyFolded
\* index curled, three fingers up, thumb out and up
PoseCF == Wrist \o ThumbOut \o IndexCurled \o MiddleUp \o RingUp \o PinkyUp
\* index curled, three fingers up, thumb out and flat
PoseF == Wrist \o ThumbFlat \o IndexCurled \o MiddleUp \o RingUp \o PinkyUp
\* index pointing sideways, thumb pointing to the camera
PoseDNear ==
    Wrist \o ThumbNear \o IndexSideways \o MiddleCurled \o RingCurled \o PinkyCurled

\* all 21 landmarks at one place of the image, at slightly different depths
PosePoint == [i \in 1..21 |-> P(500, 600, i % 3)]

\* the same hand elsewhere in the image and at another depth
translate(pose, d) ==
    [i \in 1..Len(pose) |->
        [x |-> pose[i].x + d.x, y |-> pose[i].y + d.y, z |-> pose[i].z + d.z]]

\* the same hand k times as large in the image, the wrist where it was
scaleXY(pose, k) ==
    [i \in 1..Len(pose) |->
        [x |-> pose[1].x + k * (pose[i].x - pose[1].x),
         y |-> pose[1].y + k * (pose[i].y - pose[1].y),
         z |-> pose[i].z]]

Fixture ==
    [PoseB |-> PoseB,
     PoseDUp |-> PoseDUp,
     PoseDSide |-> PoseDSide,
     PoseV |-> PoseV,
     Short20 |-> SubSeq(PoseB, 1, 20),
     Long22 |-> PoseB \o <<P(610, 430, 0)>>,
     Empty0 |-> <<>>,
     PoseA |-> PoseA,
     PoseAE |-> PoseAE,
     PoseE |-> PoseE,
     PoseCF |-> PoseCF,
     PoseF |-> PoseF,
     PoseDNear |-> PoseDNear,
     PoseBMoved |-> translate(PoseB, P(-200, -290, 30)),
     PoseVMoved |-> translate(PoseV, P(30, -40, -10)),
     PoseDSideMoved |-> translate(PoseDSide, P(-300, 20, 0)),
     PoseDNearMoved |-> translate(PoseDNear, P(150, -100, -40)),
     PoseDSideTwice |-> scaleXY(PoseDSide, 2),
     PoseDNearTwice |-> scaleXY(PoseDNear, 2),
     PosePoint |-> PosePoint]

\* the argument null / undefined
Missing == "Missing"

Frames ==
    {"PoseB", "PoseDUp", "PoseDSide", "PoseV", "Short20", "Long22", "Empty0", Missing}
LongFrames == {"PoseB", "PoseDUp"}
\* one pose per primary rule, two poses that satisfy two rules, one that
\* satisfies none, a frame that is too short, and a hand of no extent
RuleFrames ==
    {"PoseA", "PoseAE", "PoseB", "PoseCF", "PoseDSide", "PoseE", "PoseF", "PoseV",
     "Short20", "PosePoint"}

\* faulty variant: the length test rejects shorter frames only
isMalformedShorter(f) == f = Missing \/ Len(Fixture[f]) < 21

\* !landmarks || landmarks.length !== 21
isMalformed(f) == f = Missing \/ Len(Fixture[f]) # 21

\* the frames on which steps 1 to 3 read only landmarks that exist
Computable == {f \in DOMAIN Fixture : Len(Fixture[f]) >= 21}

\* steps 1 to 3 depend on the frame only
FinalResult == [f \in Computable |-> finalResultOf(Fixture[f])]
PrimaryOf == [f \in Computable |-> primaryResultOf(Fixture[f])]
FingerStatesOf ==
    [f \in Computable |-> calculateAdvancedFingerStates(normalizeLandmarks(Fixture[f]))]
FeaturesOf ==
    [f \in Computable |-> extractGeometricFeatures(normalizeLandmarks(Fixture[f]))]
NormalizedOf == [f \in Computable |-> normalizeLandmarks(Fixture[f])]
\* what the secondary pass returns for the frame; Null also when it does not run
SecondaryOf ==
    [f \in Computable |->
        IF PrimaryOf[f] # Null /\ isInConfusionGroup(PrimaryOf[f].primaryGesture)
        THEN secondaryClassification(PrimaryOf[f].primaryGesture,
                                     FingerStatesOf[f], FeaturesOf[f])
        ELSE Null]

(***************************************************************************)
(* The classifier instance.                                                *)
(***************************************************************************)
NoScore == -1

\* faulty variant: the normalized points are written into the caller's array
landmarksNormalizedInPlace(array) == normalizeLandmarks(array)

\* the array of the caller after a call that got past the length test: map
\* builds a new array and no statement assigns to landmarks or to a point of it
landmarksAfterCall(array) == array

\* a new instance; frame is the frame of its last call (Missing: none yet)
newInstance ==
    [gestureHistory |-> <<>>,
     confidenceHistory |-> <<>>,
     stabilityThreshold |-> (85 * ScoreUnit) \div 100,
     historySize |-> 15,
     result |-> Null,
     score |-> NoScore,
     frame |-> Missing]

\* MediaCapture after mount: the classifier of gestureClassifierRef, the refs
\* lastGestureRef and frameCountRef, and what onGestureDetected was last given
\* (forwarded), whether the last frame showed a hand, the number of calls of
\* onGestureDetected and the frame of the last call that repeated a letter
newLoop ==
    [classifier |-> newInstance,
     frameCount |-> 0,
     lastGesture |-> "",
     forwarded |-> Null,
     hasHands |-> FALSE,
     forwards |-> 0,
     lastRepeat |-> 0]

\* EnhancedGesturePanel before its first effect: no socket, no timer
newPanel ==
    [recognitionMethod |-> "frontend",
     mounted |-> TRUE,
     wsRef |-> 0,
     sockets |-> <<>>,
     reconnectTimeoutRef |-> 0,
     timers |-> <<>>,
     backendConnected |-> FALSE]

\* SpeechCapture after its effect has created the recognizer and set the
\* timer of the initial start: the state isListening, the refs, the state of
\* the browser's recognizer, the pending timers (500 ms, 750 ms, 1500 ms),
\* how far an intentional stop of the user has come, and which caller of
\* safeStart has started the recognizer last
newSpeech ==
    [isListening |-> FALSE,
     recognitionRef |-> TRUE,
     isStartingRef |-> FALSE,
     isStoppingRef |-> FALSE,
     intentionalStop |-> FALSE,
     recognizer |-> "idle",
     initialTimer |-> TRUE,
     endTimers |-> 0,
     errorTimers |-> 0,
     userStop |-> "none",
     startedBy |-> "none"]

\* no finger states drawn
noDraw ==
    [fingerStates |-> Null, geometricFeatures |-> <<>>, primary |-> Null,
     final |-> Null, calls |-> 0]

Init ==
    /\ gestureHistory = <<>>
    /\ confidenceHistory = <<>>
    /\ stabilityThreshold = (85 * ScoreUnit) \div 100
    /\ historySize = 15
    /\ inputs = <<>>
    /\ result = Null
    /\ lastScore = NoScore
    /\ callerLandmarks = Null
    /\ other = newInstance
    /\ otherInputs = <<>>
    /\ loop = newLoop
    /\ panel = newPanel
    /\ speech = newSpeech
    /\ drawn = noDraw

classifyGesture(f) ==
    /\ inputs' = Append(inputs, f)
    /\ UNCHANGED <<stabilityThreshold, historySize>>
    /\ callerLandmarks' = IF f = Missing THEN Null
                          ELSE IF isMalformed(f) THEN Fixture[f]
                          ELSE landmarksAfterCall(Fixture[f])
    /\ IF isMalformed(f)
       THEN /\ result' = Null
            /\ lastScore' = NoScore
            /\ UNCHANGED <<gestureHistory, confidenceHistory>>
       ELSE LET finalResult == FinalResult[f]
            IN  IF finalResult # Null
                THEN LET s == calculateStabilityScore(gestureHistory, confidenceHistory,
                                  historySize, finalResult.primaryGesture,
                                  finalResult.confidence)
                     IN  /\ gestureHistory' = s.gestureHistory
                         /\ confidenceHistory' = s.confidenceHistory
                         /\ lastScore' = s.score
                         /\ result' = IF passesGate(s.score, stabilityThreshold)
                                      THEN [finalResult EXCEPT !.stabilityScore = s.score]
                                      ELSE Null
                ELSE /\ result' = Null
                     /\ lastScore' = NoScore
                     /\ UNCHANGED <<gestureHistory, confidenceHistory>>

Next ==
    \E f \in Frames :
        Len(inputs) < MaxCalls /\ classifyGesture(f)
        /\ UNCHANGED <<other, otherInputs, outerVars>>
Spec == Init /\ [][Next]_vars

NextLong ==
    \E f \in LongFrames :
        Len(inputs) < MaxLongCalls /\ classifyGesture(f)
        /\ UNCHANGED <<other, otherInputs, outerVars>>
SpecLong == Init /\ [][NextLong]_vars

NextRules ==
    \E f \in RuleFrames :
        Len(inputs) < MaxRuleCalls /\ classifyGesture(f)
        /\ UNCHANGED <<other, otherInputs, outerVars>>
SpecRules == Init /\ [][NextRules]_vars

\* the poses of the highest and of the lowest confidence, a third letter, a
\* letter of the secondary pass and a pose that matches no rule
GateFrames == {"PoseA", "PoseB", "PoseE", "PoseDUp", "PoseV"}

NextGate ==
    \E f \in GateFrames :
        Len(inputs) < MaxGateCalls /\ classifyGesture(f)
        /\ UNCHANGED <<other, otherInputs, outerVars>>
SpecGate == Init /\ [][NextGate]_vars

(***************************************************************************)
(* Steps 2 to 4 on finger states and features that are not computed from   *)
(* landmarks but drawn from all combinations of the values the rules and   *)
(* the discriminators tell apart.                                          *)
(***************************************************************************)
\* the thumb: tip beside its joint or not; above it, below it or level
DrawnThumbs ==
    {[x |-> e, y |-> v] : e \in BOOLEAN, v \in {"up", "level", "curled"}}
DrawnBends == {"extended", "level", "curled"}
DrawnOpenness == {Milli(100), Milli(250), Milli(350), Milli(500), Milli(750), Milli(900)}
\* the direction of the index finger: up, level, at the limit 0.5, down
DrawnAngles == {-16000, 0, 5000, 16000}
\* the thumb distance, the index distance and the curvature
DrawnFeatures ==
    {<<t, i, c>> : t \in {Milli(30), Milli(80)}, i \in {Milli(40), Milli(900)},
                   c \in {Milli(300), Milli(800)}}

\* the record of calculateAdvancedFingerStates with the drawn values; the
\* fields that no rule reads are constant
drawnFingerStates(thumb, index, middle, ring, pinky, openness, angle) ==
    [thumbExtended  |-> thumb.x,
     thumbUp        |-> thumb.y = "up",
     thumbCurled    |-> thumb.y = "curled",
     indexExtended  |-> index = "extended",
     indexCurled    |-> index = "curled",
     middleExtended |-> middle,
     middleCurled   |-> FALSE,
     ringExtended   |-> ring,
     ringCurled     |-> FALSE,
     pinkyExtended  |-> pinky,
     pinkyCurled    |-> FALSE,
     palmFacing     |-> FALSE,
     handOrientation |-> 0,
     fingerAngles   |-> <<0, angle, 0, 0, 0>>,
     fingerDistances |-> <<0, 0, 0, 0, 0>>,
     handOpenness   |-> openness,
     wristAngle     |-> 0]

\* the 15 features with the drawn thumb distance, index distance and curvature
drawnFeatures(v) ==
    <<v[1], v[2]>> \o [i \in 1..12 |-> 0] \o <<v[3]>>

InitLayers ==
    /\ gestureHistory = <<>>
    /\ confidenceHistory = <<>>
    /\ stabilityThreshold = (85 * ScoreUnit) \div 100
    /\ historySize = 15
    /\ inputs = <<>>
    /\ result = Null
    /\ lastScore = NoScore
    /\ callerLandmarks = Null
    /\ other = newInstance
    /\ otherInputs = <<>>
    /\ loop = newLoop
    /\ panel = newPanel
    /\ speech = newSpeech
    /\ \E thumb \in DrawnThumbs, index \in DrawnBends, middle \in BOOLEAN,
          ring \in BOOLEAN, pinky \in BOOLEAN, openness \in DrawnOpenness,
          angle \in DrawnAngles, v \in DrawnFeatures :
            drawn = [noDraw EXCEPT
                       !.fingerStates = drawnFingerStates(thumb, index, middle, ring,
                                                          pinky, openness, angle),
                       !.geometricFeatures = drawnFeatures(v)]

\* steps 2 to 4 of classifyGesture on the drawn finger states and features
classifyDrawn ==
    LET primaryResult ==
            primaryClassification(drawn.fingerStates, drawn.geometricFeatures)
        finalResult == twoLayers(drawn.fingerStates, drawn.geometricFeatures)
    IN  /\ drawn' = [drawn EXCEPT !.primary = primaryResult, !.final = finalResult,
                                  !.calls = @ + 1]
        /\ UNCHANGED <<stabilityThreshold, historySize, inputs, callerLandmarks>>
        /\ IF finalResult # Null
           THEN LET s == calculateStabilityScore(gestureHistory, confidenceHistory,
                             historySize, finalResult.primaryGesture,
                             finalResult.confidence)
                IN  /\ gestureHistory' = s.gestureHistory
                    /\ confidenceHistory' = s.confidenceHistory
                    /\ lastScore' = s.score
                    /\ result' = IF passesGate(s.score, stabilityThreshold)
                                 THEN [finalResult EXCEPT !.stabilityScore = s.score]
                                 ELSE Null
           ELSE /\ result' = Null
                /\ lastScore' = NoScore
                /\ UNCHANGED <<gestureHistory, confidenceHistory>>

NextLayers ==
    /\ drawn.calls < MaxDrawnCalls
    /\ classifyDrawn
    /\ UNCHANGED <<other, otherInputs, loop, panel, speech>>
SpecLayers == InitLayers /\ [][NextLayers]_vars

(***************************************************************************)
(* Two instances side by side.  The second one is held in the record       *)
(* other; classifyGestureOn is classifyGesture on such a record.           *)
(***************************************************************************)
\* step 4 on an instance, s being what calculateStabilityScore gave
scoredOn(instance, f, s) ==
    [instance EXCEPT
        !.gestureHistory = s.gestureHistory,
        !.confidenceHistory = s.confidenceHistory,
        !.result = IF passesGate(s.score, instance.stabilityThreshold)
                   THEN [FinalResult[f] EXCEPT !.stabilityScore = s.score]
                   ELSE Null,
        !.score = s.score,
        !.frame = f]

classifyGestureOn(instance, f) ==
    IF isMalformed(f) \/ FinalResult[f] = Null
    THEN [instance EXCEPT !.result = Null, !.score = NoScore, !.frame = f]
    ELSE scoredOn(instance, f,
                  calculateStabilityScore(instance.gestureHistory,
                      instance.confidenceHistory, instance.historySize,
                      FinalResult[f].primaryGesture, FinalResult[f].confidence))

\* the frames given to the two instances in one step: a hand and the same
\* hand again, moved, or twice resp. half as large
TwinPairs ==
    {<<"PoseB", "PoseB">>, <<"PoseDNear", "PoseDNear">>, <<"Short20", "Short20">>,
     <<"PoseB", "PoseBMoved">>, <<"PoseV", "PoseVMoved">>,
     <<"PoseDSide", "PoseDSideMoved">>, <<"PoseDNear", "PoseDNearMoved">>,
     <<"PoseDSide", "PoseDSideTwice">>, <<"PoseDSideTwice", "PoseDSide">>,
     <<"PoseDNear", "PoseDNearTwice">>, <<"PoseDNearTwice", "PoseDNear">>}

classifyGestureTwice(f, g) ==
    /\ classifyGesture(f)
    /\ other' = classifyGestureOn(other, g)
    /\ otherInputs' = Append(otherInputs, g)
    /\ UNCHANGED outerVars

NextTwin ==
    \E pair \in TwinPairs :
        Len(inputs) < MaxTwinCalls /\ classifyGestureTwice(pair[1], pair[2])
SpecTwin == Init /\ [][NextTwin]_vars

\* the frames given to the two instances in one step when each instance has
\* frames of its own: two letter poses each, and a step that only the second
\* instance records
OrderPairs ==
    {<<"PoseB", "PoseB">>, <<"PoseB", "PoseDUp">>, <<"PoseDUp", "PoseB">>,
     <<"PoseDUp", "PoseDUp">>, <<"PoseV", "PoseB">>}

NextOrder ==
    \E pair \in OrderPairs :
        Len(inputs) < MaxOrderCalls /\ classifyGestureTwice(pair[1], pair[2])
SpecOrder == Init /\ [][NextOrder]_vars

(***************************************************************************)
(* The frame loop of MediaCapture (predictWebcam).  One step is one new    *)
(* video frame; the hand landmarker is configured with numHands: 1, so a   *)
(* frame holds at most one hand.  Every caller passes onGestureDetected.   *)
(***************************************************************************)
\* faulty variant: a letter is forwarded only when it changes
shouldForwardOnChange(letter, lastGesture, frameCount) == letter # lastGesture

\* gestureResult.primaryGesture !== lastGestureRef.current
\*   || frameCountRef.current % 8 === 0
shouldForward(letter, lastGesture, frameCount) ==
    letter # lastGesture \/ frameCount % 8 = 0

\* the refs after a frame without a hand: the frame is counted
frameWithoutHands(l) ==
    [l EXCEPT !.frameCount = @ + 1, !.hasHands = FALSE]

\* the refs after a frame with the hand f: the frame is counted and
\* classified, and the result, if there is one, is forwarded or not
frameWithHands(l, f) ==
    LET count == l.frameCount + 1
        classifier == classifyGestureOn(l.classifier, f)
        gestureResult == classifier.result
        counted == [l EXCEPT !.frameCount = count, !.hasHands = TRUE,
                             !.classifier = classifier]
    IN  IF gestureResult # Null
           /\ shouldForward(gestureResult.primaryGesture, l.lastGesture, count)
        THEN [counted EXCEPT
                !.lastGesture = gestureResult.primaryGesture,
                !.forwarded = gestureResult,
                !.forwards = @ + 1,
                !.lastRepeat = IF gestureResult.primaryGesture = l.lastGesture
                               THEN count ELSE @]
        ELSE counted

predictWebcam(hasHands, f) ==
    /\ loop' = IF hasHands THEN frameWithHands(loop, f) ELSE frameWithoutHands(loop)
    /\ UNCHANGED <<gestureHistory, confidenceHistory, stabilityThreshold,
                   historySize, inputs, result, lastScore, callerLandmarks,
                   other, otherInputs, panel, speech, drawn>>

\* the hands that a frame may show: during the first frames of a run any of
\* two letter poses and a pose that matches no rule, afterwards the B pose
LoopFrames(n) ==
    IF n < MaxMixedFrames THEN {"PoseB", "PoseDUp", "PoseV"} ELSE {"PoseB"}

NextLoop ==
    /\ loop.frameCount < MaxLoopFrames
    /\ \/ predictWebcam(FALSE, Missing)
       \/ \E f \in LoopFrames(loop.frameCount) : predictWebcam(TRUE, f)
SpecLoop == Init /\ [][NextLoop]_vars

(***************************************************************************)
(* EnhancedGesturePanel: the recognition method, the WebSocket to the      *)
(* backend and the reconnect timer.  A socket and a timer keep the         *)
(* closures they were created with: connectToBackend and the onclose       *)
(* handler it installs read the recognitionMethod of the render in which   *)
(* the effect called connectToBackend.                                     *)
(***************************************************************************)
\* new WebSocket(...) with its handlers; method is the recognitionMethod that
\* the closure of connectToBackend holds
connectToBackend(p, method) ==
    [p EXCEPT
        !.sockets = Append(@, [readyState |-> "CONNECTING", method |-> method]),
        !.wsRef = Len(p.sockets) + 1]

\* WebSocket.close(): a socket that is connecting or open starts closing
closeSocket(socket) ==
    IF socket.readyState \in {"CONNECTING", "OPEN"}
    THEN [socket EXCEPT !.readyState = "CLOSING"]
    ELSE socket

\* clearTimeout: a pending timer will not fire
clearTimeout(timer) ==
    IF timer.state = "pending" THEN [timer EXCEPT !.state = "cleared"] ELSE timer

disconnectFromBackend(p) ==
    [p EXCEPT
        !.timers = IF p.reconnectTimeoutRef # 0
                   THEN [@ EXCEPT ![p.reconnectTimeoutRef] = clearTimeout(@)]
                   ELSE @,
        !.sockets = IF p.wsRef # 0
                    THEN [@ EXCEPT ![p.wsRef] = closeSocket(@)]
                    ELSE @,
        !.wsRef = 0,
        !.backendConnected = FALSE]

\* the effect on recognitionMethod in the render with the given method
methodEffect(p, method) ==
    IF method = "backend" THEN connectToBackend(p, method)
    ELSE disconnectFromBackend(p)

\* the click on the method button: the state changes, the cleanup of the
\* previous effect runs, then the effect of the new render
setRecognitionMethod ==
    LET method == IF panel.recognitionMethod = "frontend" THEN "backend"
                  ELSE "frontend"
    IN  /\ panel.mounted
        /\ method = "backend" => Len(panel.sockets) < MaxSockets
        /\ panel' = methodEffect(
                        [disconnectFromBackend(panel) EXCEPT
                            !.recognitionMethod = method],
                        method)
        /\ UNCHANGED <<classifierVars, loop, speech, drawn>>

\* the component unmounts: the cleanup of the effect runs
unmountPanel ==
    /\ panel.mounted
    /\ panel' = [disconnectFromBackend(panel) EXCEPT !.mounted = FALSE]
    /\ UNCHANGED <<classifierVars, loop, speech, drawn>>

\* the open event of socket i: onopen
socketOpens(i) ==
    /\ panel.sockets[i].readyState = "CONNECTING"
    /\ panel' = [panel EXCEPT !.sockets[i].readyState = "OPEN",
                              !.backendConnected = TRUE]
    /\ UNCHANGED <<classifierVars, loop, speech, drawn>>

\* the handler onclose of a socket: the reconnect timer is set when the
\* recognitionMethod of the closure is 'backend'
onclose(p, socket) ==
    IF socket.method = "backend"
    THEN [p EXCEPT
            !.backendConnected = FALSE,
            !.timers = Append(@, [state |-> "pending", method |-> socket.method]),
            !.reconnectTimeoutRef = Len(p.timers) + 1]
    ELSE [p EXCEPT !.backendConnected = FALSE]

\* the close event of socket i, after close() or after the connection failed
\* or was closed by the server
socketCloses(i) ==
    /\ panel.sockets[i].readyState # "CLOSED"
    /\ panel' = onclose([panel EXCEPT !.sockets[i].readyState = "CLOSED"],
                        panel.sockets[i])
    /\ UNCHANGED <<classifierVars, loop, speech, drawn>>

\* the reconnect timer t fires after 3000 ms: connectToBackend of its closure
reconnectTimerFires(t) ==
    /\ panel.timers[t].state = "pending"
    /\ Len(panel.sockets) < MaxSockets
    /\ panel' = connectToBackend([panel EXCEPT !.timers[t].state = "fired"],
                                 panel.timers[t].method)
    /\ UNCHANGED <<classifierVars, loop, speech, drawn>>

NextPanel ==
    \/ setRecognitionMethod
    \/ unmountPanel
    \/ \E i \in 1..Len(panel.sockets) : socketOpens(i)
    \/ \E i \in 1..Len(panel.sockets) : socketCloses(i)
    \/ \E t \in 1..Len(panel.timers) : reconnectTimerFires(t)
SpecPanel == Init /\ [][NextPanel]_vars

(***************************************************************************)
(* SpeechCapture: the browser's speech recognizer, the handlers of its     *)
(* events and the restart timers.  The recognizer is idle, starting (start *)
(* was called), running (the start event was dispatched) or ending (stop   *)
(* was called or an error occurred; the end event is to come).  start      *)
(* throws unless the recognizer is idle; stop does nothing when it is.     *)
(* The handlers and timer callbacks are closures of the render in which    *)
(* the effect ran, where isListening was false.                            *)
(***************************************************************************)
\* recognition.start() inside safeStart, and its catch clause
startRecognition(s, caller) ==
    IF s.recognizer = "idle"
    THEN [s EXCEPT !.isStartingRef = TRUE, !.intentionalStop = FALSE,
                   !.recognizer = "starting", !.startedBy = caller]
    ELSE [s EXCEPT !.isStartingRef = FALSE, !.intentionalStop = FALSE,
                   !.isListening = TRUE]

\* safeStart as called from a closure that sees isListening as given
safeStart(s, isListening, caller) ==
    IF ~s.recognitionRef \/ s.isStartingRef \/ isListening THEN s
    ELSE startRecognition(s, caller)

\* recognition.stop()
stopRecognition(recognizer) ==
    IF recognizer \in {"starting", "running"} THEN "ending" ELSE recognizer

safeStop(s) ==
    IF ~s.recognitionRef \/ s.isStoppingRef THEN s
    ELSE [s EXCEPT !.isStoppingRef = TRUE, !.intentionalStop = TRUE,
                   !.recognizer = stopRecognition(@)]

\* the click on the button while it shows Stop resp. Start
toggleListening ==
    /\ speech.recognitionRef
    /\ speech' = IF speech.isListening
                 THEN [safeStop(speech) EXCEPT
                         !.userStop = IF speech.isStoppingRef THEN @ ELSE "requested"]
                 ELSE [safeStart([speech EXCEPT !.intentionalStop = FALSE], FALSE, "user")
                         EXCEPT !.userStop = "none"]
    /\ UNCHANGED <<classifierVars, loop, panel, drawn>>

\* the start event: recognition.onstart
onstart ==
    /\ speech.recognizer = "starting"
    /\ speech' = [speech EXCEPT !.recognizer = "running", !.isListening = TRUE,
                                !.isStartingRef = FALSE, !.isStoppingRef = FALSE]
    /\ UNCHANGED <<classifierVars, loop, panel, drawn>>

ErrorKinds == {"no-speech", "audio-capture", "network", "not-allowed"}
Recoverable == {"no-speech", "audio-capture"}

\* an error event: recognition.onerror; the recognizer then ends
onerror(kind) ==
    /\ speech.recognizer \in {"starting", "running"}
    /\ kind \in Recoverable => speech.errorTimers < MaxTimers
    /\ speech' = [speech EXCEPT
                    !.recognizer = "ending",
                    !.isListening = FALSE,
                    !.isStartingRef = FALSE,
                    !.isStoppingRef = FALSE,
                    !.errorTimers = IF kind \in Recoverable THEN @ + 1 ELSE @]
    /\ UNCHANGED <<classifierVars, loop, panel, drawn>>

\* the end event: recognition.onend
onend ==
    /\ speech.recognizer \in {"running", "ending"}
    /\ ~speech.intentionalStop => speech.endTimers < MaxTimers
    /\ speech' = [speech EXCEPT
                    !.recognizer = "idle",
                    !.isListening = FALSE,
                    !.isStartingRef = FALSE,
                    !.isStoppingRef = FALSE,
                    !.intentionalStop = FALSE,
                    !.endTimers = IF speech.intentionalStop THEN @ ELSE @ + 1,
                    !.userStop = IF @ = "requested" THEN "ended" ELSE @]
    /\ UNCHANGED <<classifierVars, loop, panel, drawn>>

\* the timer of the initial start fires after 500 ms
initialTimerFires ==
    /\ speech.initialTimer
    /\ speech' = IF speech.recognitionRef /\ ~speech.intentionalStop
                 THEN safeStart([speech EXCEPT !.initialTimer = FALSE], FALSE, "initial")
                 ELSE [speech EXCEPT !.initialTimer = FALSE]
    /\ UNCHANGED <<classifierVars, loop, panel, drawn>>

\* a restart timer of onend fires after 750 ms
endTimerFires ==
    /\ speech.endTimers > 0
    /\ speech' = IF /\ speech.recognitionRef /\ ~speech.intentionalStop
                    /\ ~speech.isStartingRef
                 THEN safeStart([speech EXCEPT !.endTimers = @ - 1], FALSE, "onend")
                 ELSE [speech EXCEPT !.endTimers = @ - 1]
    /\ UNCHANGED <<classifierVars, loop, panel, drawn>>

\* a restart timer of onerror fires after 1500 ms
errorTimerFires ==
    /\ speech.errorTimers > 0
    /\ speech' = IF speech.recognitionRef /\ ~speech.intentionalStop
                 THEN safeStart([speech EXCEPT !.errorTimers = @ - 1], FALSE, "onerror")
                 ELSE [speech EXCEPT !.errorTimers = @ - 1]
    /\ UNCHANGED <<classifierVars, loop, panel, drawn>>

\* the cleanup of the effect when the component unmounts
unmountSpeech ==
    /\ speech.recognitionRef
    /\ speech' = [speech EXCEPT
                    !.intentionalStop = TRUE,
                    !.recognizer = stopRecognition(@),
                    !.recognitionRef = FALSE,
                    !.isStartingRef = FALSE,
                    !.isStoppingRef = FALSE]
    /\ UNCHANGED <<classifierVars, loop, panel, drawn>>

NextSpeech ==
    \/ toggleListening
    \/ onstart
    \/ \E kind \in ErrorKinds : onerror(kind)
    \/ onend
    \/ initialTimerFires
    \/ endTimerFires
    \/ errorTimerFires
    \/ unmountSpeech
SpecSpeech == Init /\ [][NextSpeech]_vars

(***************************************************************************)
(* What a run has done so far, read from the frames submitted.             *)
(***************************************************************************)
Threshold85 == (85 * ScoreUnit) \div 100

lastFrame == inputs[Len(inputs)]

\* the number of landmarks of a frame; a missing frame has none
LandmarkCount(f) == IF f = Missing THEN -1 ELSE Len(Fixture[f])

\* the frame has 21 landmarks and a primary rule matches it
PrimaryMatches(f) == LandmarkCount(f) = 21 /\ PrimaryOf[f] # Null

\* the letter that steps 1 to 3 give to the frame
LetterOf(f) == FinalResult[f].primaryGesture

RECURSIVE TrailingRun(_, _)
\* the number of calls at the end of s[1..i] that were given the frame s[i]
TrailingRun(s, i) ==
    IF i <= 1 THEN i
    ELSE IF s[i - 1] = s[i] THEN 1 + TrailingRun(s, i - 1) ELSE 1

\* all calls so far were given the frame f
OnlyFrame(f) == \A i \in 1..Len(inputs) : inputs[i] = f

\* the calls so far were given a and b in turn, a first
Alternates(a, b) ==
    \A i \in 1..Len(inputs) : inputs[i] = IF i % 2 = 1 THEN a ELSE b

\* the finger states of a frame of 21 landmarks
StatesOf(f) == FingerStatesOf[f]

\* in the image the index tip lies above its base joint, and more above than aside
IndexPointsUp(f) ==
    LET base == At(Fixture[f], 5)
        tip == At(Fixture[f], 8)
    IN  tip.y < base.y /\ Abs(tip.x - base.x) < base.y - tip.y

(***************************************************************************)
(* C1: a call whose landmark sequence is missing or has a length other     *)
(* than 21, shorter or longer, returns null.                               *)
(***************************************************************************)
C1_MalformedReturnsNone ==
    (Len(inputs) > 0 /\ LandmarkCount(lastFrame) # 21) => result = Null

\* a frame of 22 landmarks was rejected right after a frame that was returned
C1_Witness ==
    /\ Len(inputs) >= 2
    /\ inputs[Len(inputs) - 1] = "PoseB"
    /\ lastFrame = "Long22"
    /\ Len(gestureHistory) = 1
    /\ result = Null

(***************************************************************************)
(* C2: a call with a malformed frame (a landmark count other than 21)      *)
(* leaves gestureHistory and confidenceHistory as they were.               *)
(***************************************************************************)
C2_MalformedKeepsHistory ==
    [][(Len(inputs') = Len(inputs) + 1 /\ LandmarkCount(inputs'[Len(inputs')]) # 21)
        => (gestureHistory' = gestureHistory /\ confidenceHistory' = confidenceHistory)]_vars

\* a frame of 20 landmarks was submitted to an instance with two entries
C2_Witness ==
    /\ Len(inputs) >= 3
    /\ lastFrame = "Short20"
    /\ gestureHistory = <<"B", "I">>
    /\ confidenceHistory = <<900, 890>>

(***************************************************************************)
(* C3: every result returned has a stabilityScore above 0.85, and a call   *)
(* whose computed score is 0.85 or less returns null.                      *)
(***************************************************************************)
C3_GateAbove85 ==
    /\ result # Null => result.stabilityScore > Threshold85
    /\ (lastScore # NoScore /\ lastScore <= Threshold85) => result = Null

\* a call computed a score of 0.85 or less and returned null
C3_Witness ==
    /\ Len(inputs) > 0
    /\ lastScore # NoScore
    /\ lastScore <= Threshold85
    /\ result = Null

(***************************************************************************)
(* C4: once the same pose that matches a primary rule has been submitted   *)
(* on 5 or more consecutive calls, whatever was submitted before, the      *)
(* call returns a result.                                                  *)
(***************************************************************************)
C4_FiveInARowReturns ==
    (Len(inputs) > 0 /\ PrimaryMatches(lastFrame) /\ TrailingRun(inputs, Len(inputs)) >= 5)
        => result # Null

\* the 5th consecutive call with a pose, after calls with another pose
C4_Witness ==
    /\ Len(inputs) >= 8
    /\ TrailingRun(inputs, Len(inputs)) = 5
    /\ PrimaryMatches(lastFrame)
    /\ result # Null

(***************************************************************************)
(* C5: when two poses classified as two distinct letters are submitted     *)
(* alternately to a classifier instance, every call returns null.          *)
(***************************************************************************)
C5_AlternatingAlwaysNone ==
    \A a, b \in LongFrames :
        (/\ Len(inputs) > 0
         /\ PrimaryMatches(a) /\ PrimaryMatches(b)
         /\ LetterOf(a) # LetterOf(b)
         /\ Alternates(a, b))
            => result = Null

(***************************************************************************)
(* C6: a letter classified on one frame only, a frame that is not preceded *)
(* by a frame classified as the same letter (the first frame of a new      *)
(* instance included), is never returned.                                  *)
(***************************************************************************)
C6_NoSingleFrameResult ==
    result # Null =>
        /\ Len(inputs) >= 2
        /\ PrimaryMatches(inputs[Len(inputs) - 1])
        /\ LetterOf(inputs[Len(inputs) - 1]) = result.primaryGesture

(***************************************************************************)
(* C7: on a new instance, 6 consecutive identical frames of a pose with    *)
(* index, middle, ring and pinky extended, thumb not extended and openness *)
(* above 0.7 make the 5th and the 6th call return B with confidence 0.90,  *)
(* a stabilityScore above 0.85 and neither secondaryClassification nor     *)
(* confusionGroup.                                                         *)
(***************************************************************************)
C7_SixFramesOfB ==
    \A f \in LongFrames :
        (/\ Len(inputs) \in {5, 6}
         /\ OnlyFrame(f)
         /\ StatesOf(f).indexExtended /\ StatesOf(f).middleExtended
         /\ StatesOf(f).ringExtended /\ StatesOf(f).pinkyExtended
         /\ ~StatesOf(f).thumbExtended
         /\ StatesOf(f).handOpenness > (7 * FP) \div 10)
            => /\ result # Null
               /\ result.primaryGesture = "B"
               /\ result.confidence = (90 * ConfUnit) \div 100
               /\ result.stabilityScore > Threshold85
               /\ result.secondaryClassification = Undefined
               /\ result.confusionGroup = Undefined

\* the 6th of six calls with the B pose
C7_Witness ==
    /\ Len(inputs) = 6
    /\ OnlyFrame("PoseB")
    /\ result # Null
    /\ result.primaryGesture = "B"

(***************************************************************************)
(* C8: for a canonical D pose (index extended and pointing up, middle,     *)
(* ring and pinky not extended, thumb extended, so that the primary rule   *)
(* yields D) every result returned has letter D, confusionGroup DRU and    *)
(* secondaryClassification angle_analysis.                                 *)
(***************************************************************************)
C8_CanonicalDIsD ==
    (/\ Len(inputs) > 0
     /\ PrimaryMatches(lastFrame)
     /\ PrimaryOf[lastFrame].primaryGesture = "D"
     /\ IndexPointsUp(lastFrame)
     /\ result # Null)
        => /\ result.primaryGesture = "D"
           /\ result.confusionGroup = "DRU"
           /\ result.secondaryClassification = "angle_analysis"

(***************************************************************************)
(* C9: neither gestureHistory nor confidenceHistory is ever longer than    *)
(* 15, also after more than 15 calls.                                      *)
(***************************************************************************)
C9_HistoryAtMost15 ==
    Len(gestureHistory) <= 15 /\ Len(confidenceHistory) <= 15

\* more than 15 frames were classified and the history holds 15 entries
C9_Witness ==
    /\ Len(inputs) > 15
    /\ \A i \in 1..Len(inputs) : PrimaryMatches(inputs[i])
    /\ Len(gestureHistory) = 15
    /\ Len(confidenceHistory) = 15

(***************************************************************************)
(* C10: a call in which a primary rule matches appends exactly one entry,  *)
(* the final letter with its final confidence, also when the call returns  *)
(* null; at 15 entries the oldest is dropped and the others keep their     *)
(* order.                                                                  *)
(***************************************************************************)
AppendedFIFO(old, new, entry) ==
    LET dropped == Len(old) + 1 - Len(new)
    IN  /\ Len(new) = Min2(Len(old) + 1, 15)
        /\ new[Len(new)] = entry
        /\ \A i \in 1..(Len(new) - 1) : new[i] = old[i + dropped]

C10_AppendsOneEntryFIFO ==
    [][(Len(inputs') = Len(inputs) + 1 /\ PrimaryMatches(inputs'[Len(inputs')]))
        => LET final == FinalResult[inputs'[Len(inputs')]]
           IN  /\ AppendedFIFO(gestureHistory, gestureHistory', final.primaryGesture)
               /\ AppendedFIFO(confidenceHistory, confidenceHistory', final.confidence)]_vars

\* a call on a full history returned null; its revised letter I is the newest
\* entry and the entries of the B pose before it have moved up
C10_Witness ==
    /\ Len(inputs) > 15
    /\ result = Null
    /\ lastScore # NoScore
    /\ Len(gestureHistory) = 15
    /\ gestureHistory[15] = "I"
    /\ gestureHistory[14] = "B"
    /\ confidenceHistory[15] = 890
    /\ confidenceHistory[14] = 900

(***************************************************************************)
(* What a step has done, read from the two states of the step.             *)
(***************************************************************************)
\* the step is a call of classifyGesture on the first instance
IsCall == Len(inputs') = Len(inputs) + 1

\* the frame the call of this step was given
calledFrame == inputs'[Len(inputs')]

\* no rule of the primary layer holds of the frame
NoRuleHolds(f) ==
    /\ ~ruleA(FingerStatesOf[f]) /\ ~ruleB(FingerStatesOf[f])
    /\ ~ruleC(FingerStatesOf[f], FeaturesOf[f]) /\ ~ruleD(FingerStatesOf[f])
    /\ ~ruleE(FingerStatesOf[f]) /\ ~ruleF(FingerStatesOf[f])

(***************************************************************************)
(* C11: a call with a frame of 21 landmarks of which no primary rule       *)
(* holds returns null, has no result of a secondary pass, computes no      *)
(* stability score and leaves both histories as they were.                 *)
(***************************************************************************)
C11_NoMatchReturnsNone ==
    [][(IsCall /\ LandmarkCount(calledFrame) = 21 /\ NoRuleHolds(calledFrame))
        => /\ result' = Null
           /\ FinalResult[calledFrame] = Null
           /\ lastScore' = NoScore
           /\ gestureHistory' = gestureHistory
           /\ confidenceHistory' = confidenceHistory]_vars

\* the pose that no rule matches was submitted to an instance with one entry
C11_Witness ==
    /\ Len(inputs) >= 2
    /\ lastFrame = "PoseV"
    /\ NoRuleHolds("PoseV")
    /\ gestureHistory = <<"B">>
    /\ confidenceHistory = <<900>>
    /\ result = Null

(***************************************************************************)
(* Two frames of 21 landmarks that show the same hand.                     *)
(***************************************************************************)
\* g is f with one offset added to all 21 points
Moved(f, g) ==
    /\ LandmarkCount(f) = 21 /\ LandmarkCount(g) = 21
    /\ \A i \in 1..21 :
        /\ Fixture[g][i].x - Fixture[f][i].x = Fixture[g][1].x - Fixture[f][1].x
        /\ Fixture[g][i].y - Fixture[f][i].y = Fixture[g][1].y - Fixture[f][1].y
        /\ Fixture[g][i].z - Fixture[f][i].z = Fixture[g][1].z - Fixture[f][1].z

\* the factors k = num / den that the frames of the model are scaled by
ScaleFactors == {<<1, 2>>, <<2, 1>>}

\* g is f with x and y scaled by k around the wrist, z as it is
ScaledXY(f, g, k) ==
    /\ LandmarkCount(f) = 21 /\ LandmarkCount(g) = 21
    /\ Fixture[g][1] = Fixture[f][1]
    /\ \A i \in 1..21 :
        /\ k[2] * (Fixture[g][i].x - Fixture[g][1].x)
              = k[1] * (Fixture[f][i].x - Fixture[f][1].x)
        /\ k[2] * (Fixture[g][i].y - Fixture[g][1].y)
              = k[1] * (Fixture[f][i].y - Fixture[f][1].y)
        /\ Fixture[g][i].z = Fixture[f][i].z

\* before the step the two instances have the same history
SameHistory ==
    /\ gestureHistory = other.gestureHistory
    /\ confidenceHistory = other.confidenceHistory

\* two returned values are both null or agree in letter, confidence,
\* secondaryClassification and confusionGroup
SameOutcome(r1, r2) ==
    IF r1 = Null \/ r2 = Null THEN r1 = Null /\ r2 = Null
    ELSE /\ r1.primaryGesture = r2.primaryGesture
         /\ r1.confidence = r2.confidence
         /\ r1.secondaryClassification = r2.secondaryClassification
         /\ r1.confusionGroup = r2.confusionGroup

\* two returned values are both null or agree in letter and confidence
SameLetter(r1, r2) ==
    IF r1 = Null \/ r2 = Null THEN r1 = Null /\ r2 = Null
    ELSE /\ r1.primaryGesture = r2.primaryGesture
         /\ r1.confidence = r2.confidence

(***************************************************************************)
(* C13: from the same history, a call with a frame of 21 landmarks and a   *)
(* call with the same frame moved by a constant offset return the same     *)
(* outcome: null, or the same letter, confidence, secondaryClassification  *)
(* and confusionGroup.                                                     *)
(***************************************************************************)
C13_TranslationInvariant ==
    [][(IsCall /\ SameHistory /\ Moved(calledFrame, other'.frame))
        => SameOutcome(result', other'.result)]_vars

\* the B pose and the B pose moved up and to the left, and nearer in depth,
\* were both returned as B from the same history of one entry
C13_Witness ==
    /\ Len(inputs) = 2
    /\ lastFrame = "PoseB"
    /\ other.frame = "PoseBMoved"
    /\ Fixture["PoseBMoved"][1] # Fixture["PoseB"][1]
    /\ Moved("PoseB", "PoseBMoved")
    /\ Len(gestureHistory) = 2 /\ Len(other.gestureHistory) = 2
    /\ result # Null /\ other.result # Null
    /\ result.primaryGesture = "B" /\ other.result.primaryGesture = "B"

(***************************************************************************)
(* C14: from the same history, a call with a frame of 21 landmarks and a   *)
(* call with the same frame whose x and y are scaled by k > 0 around the   *)
(* wrist (z as it is) produce the same letter and the same confidence.     *)
(***************************************************************************)
C14_ScaleInvariant ==
    [][(/\ IsCall /\ SameHistory
        /\ \E k \in ScaleFactors : ScaledXY(calledFrame, other'.frame, k))
        => /\ SameLetter(result', other'.result)
           /\ SameLetter(FinalResult[calledFrame], FinalResult[other'.frame])]_vars

(***************************************************************************)
(* C15: every result returned has a letter of the alphabet, a confidence   *)
(* in [0, 1], a stabilityScore in [0, 1] that is the score computed by     *)
(* this call and not the 0 that the primary rules set, and                 *)
(* secondaryClassification and confusionGroup both set or both unset.      *)
(***************************************************************************)
Letters ==
    {"A", "B", "C", "D", "E", "F", "G", "H", "I", "J", "K", "L", "M",
     "N", "O", "P", "Q", "R", "S", "T", "U", "V", "W", "X", "Y", "Z"}

C15_ResultFullyPopulated ==
    result # Null =>
        /\ result.primaryGesture \in Letters
        /\ result.confidence >= 0 /\ result.confidence <= ConfUnit
        /\ result.stabilityScore >= 0 /\ result.stabilityScore <= ScoreUnit
        /\ lastScore # NoScore
        /\ result.stabilityScore = lastScore
        /\ result.stabilityScore # 0
        /\ (result.secondaryClassification = Undefined
               <=> result.confusionGroup = Undefined)

\* a result revised by the secondary pass was returned with its score
C15_Witness ==
    /\ result # Null
    /\ result.secondaryClassification = "angle_analysis"
    /\ result.confusionGroup = "DRU"
    /\ result.stabilityScore = lastScore
    /\ lastScore > Threshold85

(***************************************************************************)
(* C16: a call leaves the stability threshold at 0.85 and the history      *)
(* capacity at 15, and leaves the landmark array of the caller as it was   *)
(* given.                                                                  *)
(***************************************************************************)
C16_OnlyHistoryChanges ==
    [][IsCall =>
        /\ stabilityThreshold' = stabilityThreshold
        /\ stabilityThreshold' = Threshold85
        /\ historySize' = historySize
        /\ historySize' = 15
        /\ callerLandmarks' =
              IF calledFrame = Missing THEN Null ELSE Fixture[calledFrame]]_vars

\* a call has appended to the history and the caller's array is the D pose
\* as it was given
C16_Witness ==
    /\ Len(inputs) >= 2
    /\ lastFrame = "PoseDSide"
    /\ callerLandmarks = PoseDSide
    /\ Len(gestureHistory) = 2
    /\ gestureHistory[2] = "D"
    /\ stabilityThreshold = Threshold85
    /\ historySize = 15

(***************************************************************************)
(* C17: the stability score of a call is 0.6 * consistency + 0.4 *         *)
(* avgConfidence, taken after the entry of the call is appended over the   *)
(* most recent min(5, n) entries of the history of length n: consistency   *)
(* is the fraction of these letters equal to the current letter,           *)
(* avgConfidence the mean of these confidences.                            *)
(***************************************************************************)
\* the positions of the most recent min(5, n) entries
RecentPositions(n) == (n - Min2(5, n) + 1)..n

\* the number of recent letters equal to the newest one
RecentEqual(history) ==
    Cardinality({i \in RecentPositions(Len(history)) :
                    history[i] = history[Len(history)]})

RECURSIVE SumFrom(_, _)
\* the sum of the entries from position i on
SumFrom(history, i) ==
    IF i > Len(history) THEN 0 ELSE history[i] + SumFrom(history, i + 1)

C17_ScoreFormula ==
    lastScore # NoScore =>
        /\ Len(gestureHistory) > 0
        /\ 10 * Min2(5, Len(gestureHistory)) * lastScore
             = 6 * ScoreUnit * RecentEqual(gestureHistory)
               + 4 * (ScoreUnit \div ConfUnit)
                   * SumFrom(confidenceHistory,
                             Len(confidenceHistory) - Min2(5, Len(confidenceHistory)) + 1)

\* a call on a history of more than 5 entries whose window holds 3 letters
\* equal to the current one and two others
C17_Witness ==
    /\ Len(gestureHistory) > 5
    /\ lastScore # NoScore
    /\ RecentEqual(gestureHistory) = 3
    /\ gestureHistory[Len(gestureHistory) - 5] = gestureHistory[Len(gestureHistory)]
    /\ result = Null

(***************************************************************************)
(* C18: when the primary letter is in a confusion group and the secondary  *)
(* pass returns a letter, the final result has that letter, the mean of    *)
(* the two confidences, and the method and group of the secondary pass;    *)
(* the letter and the confidence appended to the history are these.        *)
(***************************************************************************)
C18_SecondaryRevises ==
    (/\ Len(inputs) > 0
     /\ PrimaryMatches(lastFrame)
     /\ isInConfusionGroup(PrimaryOf[lastFrame].primaryGesture)
     /\ SecondaryOf[lastFrame] # Null)
        => /\ Len(gestureHistory) > 0
           /\ gestureHistory[Len(gestureHistory)] = SecondaryOf[lastFrame].gesture
           /\ 2 * confidenceHistory[Len(confidenceHistory)]
                = PrimaryOf[lastFrame].confidence + SecondaryOf[lastFrame].confidence
           /\ result # Null =>
                /\ result.primaryGesture = SecondaryOf[lastFrame].gesture
                /\ 2 * result.confidence
                     = PrimaryOf[lastFrame].confidence + SecondaryOf[lastFrame].confidence
                /\ result.secondaryClassification = SecondaryOf[lastFrame].method
                /\ result.confusionGroup = SecondaryOf[lastFrame].group

\* the D rule matched with 0.89, the angle analysis answered D with 0.91, and
\* the result was returned with 0.90
C18_Witness ==
    /\ Len(inputs) > 0
    /\ lastFrame = "PoseDSide"
    /\ PrimaryOf["PoseDSide"].confidence = 890
    /\ SecondaryOf["PoseDSide"].confidence = 910
    /\ result # Null
    /\ result.confidence = 900
    /\ result.confusionGroup = "DRU"
    /\ confidenceHistory[Len(confidenceHistory)] = 900

(***************************************************************************)
(* C19: when the primary letter is in a confusion group and none of the    *)
(* discriminators returns a letter, the final letter and confidence are    *)
(* those of the primary rule and secondaryClassification and               *)
(* confusionGroup are unset.                                               *)
(***************************************************************************)
\* none of the three discriminators answers for the primary letter of f
NoSubCase(f) ==
    /\ secondaryDRU(PrimaryOf[f].primaryGesture, FingerStatesOf[f], FeaturesOf[f]) = Null
    /\ secondaryTKDI(PrimaryOf[f].primaryGesture, FingerStatesOf[f], FeaturesOf[f]) = Null
    /\ secondarySMN(PrimaryOf[f].primaryGesture, FingerStatesOf[f], FeaturesOf[f]) = Null

\* the confidence that each primary rule sets
RuleConfidence ==
    [A |-> 920, B |-> 900, C |-> 880, D |-> 890, E |-> 850, F |-> 870]

C19_NoSubCaseKeepsPrimary ==
    (/\ Len(inputs) > 0
     /\ PrimaryMatches(lastFrame)
     /\ isInConfusionGroup(PrimaryOf[lastFrame].primaryGesture)
     /\ NoSubCase(lastFrame))
        => /\ gestureHistory[Len(gestureHistory)] = PrimaryOf[lastFrame].primaryGesture
           /\ confidenceHistory[Len(confidenceHistory)]
                = RuleConfidence[PrimaryOf[lastFrame].primaryGesture]
           /\ result # Null =>
                /\ result.primaryGesture = PrimaryOf[lastFrame].primaryGesture
                /\ result.confidence = RuleConfidence[result.primaryGesture]
                /\ result.secondaryClassification = Undefined
                /\ result.confusionGroup = Undefined

\* after a B and an F, whose group has no discriminator, a C was returned
C19_Witness ==
    /\ inputs = <<"PoseB", "PoseF", "PoseCF">>
    /\ gestureHistory = <<"B", "F", "C">>
    /\ confidenceHistory = <<900, 870, 880>>
    /\ isInConfusionGroup("C") /\ NoSubCase("PoseCF")
    /\ result = Null

(***************************************************************************)
(* C20: the primary letter is that of the first rule in the order A, B, C, *)
(* D, E, F that holds of the frame, with the confidence of that rule       *)
(* (A 0.92, B 0.90, C 0.88, D 0.89, E 0.85, F 0.87): a pose of which the   *)
(* rules A and E hold is A, a pose of which C and F hold is C.             *)
(***************************************************************************)
RuleOrder == <<"A", "B", "C", "D", "E", "F">>

RuleHolds(i, f) ==
    CASE i = 1 -> ruleA(FingerStatesOf[f])
      [] i = 2 -> ruleB(FingerStatesOf[f])
      [] i = 3 -> ruleC(FingerStatesOf[f], FeaturesOf[f])
      [] i = 4 -> ruleD(FingerStatesOf[f])
      [] i = 5 -> ruleE(FingerStatesOf[f])
      [] i = 6 -> ruleF(FingerStatesOf[f])

C20_FirstRuleWins ==
    (Len(inputs) > 0 /\ LandmarkCount(lastFrame) = 21) =>
        \A i \in 1..6 :
            (RuleHolds(i, lastFrame) /\ \A j \in 1..(i - 1) : ~RuleHolds(j, lastFrame))
                => /\ PrimaryOf[lastFrame] # Null
                   /\ PrimaryOf[lastFrame].primaryGesture = RuleOrder[i]
                   /\ PrimaryOf[lastFrame].confidence = RuleConfidence[RuleOrder[i]]
                   /\ (result # Null /\ result.secondaryClassification = Undefined)
                        => /\ result.primaryGesture = RuleOrder[i]
                           /\ result.confidence = RuleConfidence[RuleOrder[i]]

\* a pose of which A and E hold was returned as A, and then a pose of which
\* C and F hold was entered in the history as C
C20_Witness ==
    /\ inputs = <<"PoseAE", "PoseAE", "PoseCF">>
    /\ RuleHolds(1, "PoseAE") /\ RuleHolds(5, "PoseAE")
    /\ RuleHolds(3, "PoseCF") /\ RuleHolds(6, "PoseCF")
    /\ gestureHistory = <<"A", "A", "C">>
    /\ confidenceHistory = <<920, 920, 880>>


(***************************************************************************)
(* C21: when all 21 landmarks have the same x and the same y, the          *)
(* normalization divides by the fallback scale 1 (InUnit), and the call    *)
(* returns null, computes no score and leaves both histories as they were. *)
(***************************************************************************)
\* the bounding box of the x and y coordinates of the frame has no extent
ZeroExtent(f) ==
    /\ LandmarkCount(f) = 21
    /\ \A i \in 1..21 : /\ Fixture[f][i].x = Fixture[f][1].x
                         /\ Fixture[f][i].y = Fixture[f][1].y

C21_ZeroExtentReturnsNone ==
    [][(IsCall /\ ZeroExtent(calledFrame))
         => /\ normalizeScale(Fixture[calledFrame]) = InUnit
            /\ result' = Null
            /\ lastScore' = NoScore
            /\ UNCHANGED <<gestureHistory, confidenceHistory>>]_vars

\* the hand of no extent was submitted after two frames that were recorded
C21_Witness ==
    /\ Len(inputs) = 3
    /\ ZeroExtent(lastFrame)
    /\ Len(gestureHistory) = 2
    /\ result = Null


(***************************************************************************)
(* C22: the outcome of a call depends on the order of the earlier frames.  *)
(* When two instances were given the same frames in different orders and   *)
(* then the same final frame, each of them returns a result exactly when   *)
(* the last min(5, n) frames it recorded, the final one included, carry    *)
(* the letter of the final frame; the two outcomes may differ, and each is *)
(* null or a result, never an error.                                       *)
(***************************************************************************)
\* the frames of s that a call records in the history
Recorded(s) == SelectSeq(s, LAMBDA f : PrimaryMatches(f))

\* the number of times the frame f occurs in s
Occurrences(s, f) == Cardinality({i \in 1..Len(s) : s[i] = f})

\* s and t end with the same frame, and before it hold the same frames, each
\* as many times in s as in t
SameFramesSameLast(s, t) ==
    /\ Len(s) > 0 /\ Len(s) = Len(t)
    /\ s[Len(s)] = t[Len(t)]
    /\ \A f \in DOMAIN Fixture : Occurrences(s, f) = Occurrences(t, f)

\* the last frame of s is recorded, and so many of the recorded frames at the
\* end of s carry its letter that the window of 5 holds no other letter
WindowOfOneLetter(s) ==
    /\ PrimaryMatches(s[Len(s)])
    /\ LET r == [i \in 1..Len(Recorded(s)) |-> LetterOf(Recorded(s)[i])]
       IN  TrailingRun(r, Len(r)) >= Min2(WindowSize, Len(r))

\* the value is null or a result with a letter: the call has returned
Returned(r) == r = Null \/ r.primaryGesture \in Letters

C22_OrderDecidesOutcome ==
    SameFramesSameLast(inputs, otherInputs)
      => /\ (result # Null) <=> WindowOfOneLetter(inputs)
         /\ (other.result # Null) <=> WindowOfOneLetter(otherInputs)
         /\ Returned(result) /\ Returned(other.result)

\* I, B, B, B, B and then B is returned; B, B, B, B, I and then B is not
C22_Witness ==
    /\ SameFramesSameLast(inputs, otherInputs)
    /\ inputs = <<"PoseDUp", "PoseB", "PoseB", "PoseB", "PoseB", "PoseB">>
    /\ otherInputs = <<"PoseB", "PoseB", "PoseB", "PoseB", "PoseDUp", "PoseB">>
    /\ result # Null /\ result.primaryGesture = "B"
    /\ other.result = Null


(***************************************************************************)
(* C23: for every frame of 21 landmarks the feature vector has 15 entries: *)
(* the 5 distances of the tips from the wrist (thumb at index 0, index     *)
(* finger at index 1), the 5 finger angles, the 4 distances of adjacent    *)
(* tips, and the curvature as the last entry (index 14).  A returned       *)
(* result carries this vector, a primary C has a curvature above 0.5 and   *)
(* a D of the DRU discriminator a thumb distance above 0.05.               *)
(***************************************************************************)
\* the tip and the base of finger i (1 = thumb) in the normalized frame f
TipOf(f, i) == At(NormalizedOf[f], fingerTips[i])
BaseOf(f, i) == At(NormalizedOf[f], fingerBases[i])

FeatureLayout(f, v) ==
    /\ Len(v) = 15
    /\ \A i \in 1..5 : v[i] = Dist3(TipOf(f, i), At(NormalizedOf[f], 0))
    /\ \A i \in 1..5 :
          v[5 + i] = Atan2(TipOf(f, i).y - BaseOf(f, i).y, TipOf(f, i).x - BaseOf(f, i).x)
    /\ \A i \in 1..4 : v[10 + i] = Dist2(TipOf(f, i + 1), TipOf(f, i))
    /\ v[15] = handCurvature(NormalizedOf[f])

C23_FeatureVectorLayout ==
    (Len(inputs) > 0 /\ LandmarkCount(lastFrame) = 21)
      => /\ FeatureLayout(lastFrame, FeaturesOf[lastFrame])
         /\ result # Null => result.geometricFeatures = FeaturesOf[lastFrame]
         /\ (PrimaryOf[lastFrame] # Null /\ PrimaryOf[lastFrame].primaryGesture = "C")
              => handCurvature(NormalizedOf[lastFrame]) > Milli(500)
         /\ (SecondaryOf[lastFrame] # Null
               /\ SecondaryOf[lastFrame].group = "DRU")
              => Dist3(TipOf(lastFrame, 1), At(NormalizedOf[lastFrame], 0)) > Milli(50)

\* a C was returned twice, with its 15 features, the last of them above 0.5
C23_Witness ==
    /\ Len(inputs) = 2
    /\ inputs[1] = "PoseCF"
    /\ result # Null /\ result.primaryGesture = "C"
    /\ Len(result.geometricFeatures) = 15
    /\ result.geometricFeatures[15] > Milli(500)


(***************************************************************************)
(* C24: a call returns a result if and only if a primary rule matches the  *)
(* frame and, with the entry of the call appended, the most recent         *)
(* min(5, n) entries of the history all carry the letter of the call.  One *)
(* other letter among them makes the call return null, whatever the        *)
(* confidences are (0.85 to 0.92).                                         *)
(***************************************************************************)
\* the most recent min(5, n) entries of the history carry its newest letter
WindowUniform ==
    \A i \in RecentPositions(Len(gestureHistory)) :
        gestureHistory[i] = gestureHistory[Len(gestureHistory)]

C24_ResultIffWindowUniform ==
    Len(inputs) > 0
      => /\ (result # Null) <=> (PrimaryMatches(lastFrame) /\ WindowUniform)
         /\ \A i \in 1..Len(confidenceHistory) :
               confidenceHistory[i] >= 850 /\ confidenceHistory[i] <= 920

\* four A of confidence 0.92 after one B of 0.90: the score is 0.8464 and the
\* call returns null
C24_Witness ==
    /\ inputs = <<"PoseB", "PoseA", "PoseA", "PoseA", "PoseA">>
    /\ confidenceHistory = <<900, 920, 920, 920, 920>>
    /\ lastScore > (84 * ScoreUnit) \div 100
    /\ lastScore < Threshold85
    /\ result = Null


(***************************************************************************)
(* C25: the letter of every result and of every history entry is one of    *)
(* A, B, C, D, E, F, I; the branches of the discriminators for R, U, T, K, *)
(* S, M and N are never taken; and a primary D is always rewritten by the  *)
(* secondary pass, to D by the DRU discriminator or else to I by the TKDI  *)
(* discriminator.                                                          *)
(***************************************************************************)
ReachableLetters == {"A", "B", "C", "D", "E", "F", "I"}

\* steps 2 to 4 have run on the drawn finger states
Classified == drawn.calls > 0

LastFourAgree(s, t) ==
    /\ Len(s) >= 4 /\ Len(t) >= 4
    /\ \A k \in 0..3 : s[Len(s) - k] = t[Len(t) - k]

C26_LastFourDecide ==
    [][(/\ IsCall
        /\ LastFourAgree(gestureHistory, other.gestureHistory)
        /\ LastFourAgree(confidenceHistory, other.confidenceHistory)
        /\ calledFrame = other'.frame)
         => /\ result' = other'.result
            /\ lastScore' = other'.score]_vars

\* the histories I, B, B, B, B and B, B, B, B, B differ in the fifth entry
\* from the end; the sixth call, with B, returned the same result on both
C26_Witness ==
    /\ inputs = <<"PoseDUp", "PoseB", "PoseB", "PoseB", "PoseB", "PoseB">>
    /\ otherInputs = <<"PoseB", "PoseB", "PoseB", "PoseB", "PoseB", "PoseB">>
    /\ gestureHistory[1] # other.gestureHistory[1]
    /\ result # Null /\ result = other.result
    /\ lastScore = other.score


(***************************************************************************)
(* C30: in every reachable state the two histories have the same length,   *)
(* and the confidence at each position of confidenceHistory is the one     *)
(* that was recorded by the same call as the letter at that position of    *)
(* gestureHistory.                                                         *)
(***************************************************************************)
\* the call that recorded the entry at position i of a history of length n,
\* every call so far having recorded one entry
RecordingCall(i, n) == inputs[Len(inputs) - n + i]

C30_HistoriesPaired ==
    /\ Len(gestureHistory) = Len(confidenceHistory)
    /\ Len(gestureHistory) = Min2(Len(inputs), historySize)
    /\ \A i \in 1..Len(gestureHistory) :
          /\ gestureHistory[i]
               = FinalResult[RecordingCall(i, Len(gestureHistory))].primaryGesture
          /\ confidenceHistory[i]
               = FinalResult[RecordingCall(i, Len(gestureHistory))].confidence

\* after 17 calls the oldest entries are the I (0.89) of the third call and
\* the B (0.90) of the fourth
C30_Witness ==
    /\ Len(inputs) = 17
    /\ Len(gestureHistory) = 15
    /\ inputs[3] = "PoseDUp" /\ inputs[4] = "PoseB"
    /\ gestureHistory[1] = "I" /\ confidenceHistory[1] = 890
    /\ gestureHistory[2] = "B" /\ confidenceHistory[2] = 900


(***************************************************************************)
(* C29: in the frame loop a result of the classifier is forwarded to       *)
(* onGestureDetected if and only if its letter differs from the letter     *)
(* forwarded last or the frame counter is a multiple of 8; nothing is      *)
(* forwarded on a frame without a result.  So a letter is forwarded again  *)
(* only on a frame whose count is a multiple of 8, two such repetitions    *)
(* lie at least 8 frames apart, and lastGestureRef always holds the letter *)
(* of the result forwarded last.                                           *)
(***************************************************************************)
\* the letter of the result forwarded last; the empty string before the first
ForwardedLetter(l) == IF l.forwarded = Null THEN "" ELSE l.forwarded.primaryGesture

\* this step has called onGestureDetected
ForwardsNow == loop'.forwards = loop.forwards + 1

\* this step has classified a frame and got a result
ResultNow == loop'.hasHands /\ loop'.classifier.result # Null

SocketLive ==
    \E i \in 1..Len(panel.sockets) :
        panel.sockets[i].readyState \in {"CONNECTING", "OPEN"}

\* a reconnect timer is pending
ReconnectScheduled ==
    \E t \in 1..Len(panel.timers) : panel.timers[t].state = "pending"

C27_NoBackendWhileFrontend ==
    (panel.recognitionMethod = "frontend" \/ ~panel.mounted)
      => ~SocketLive /\ ~ReconnectScheduled


(***************************************************************************)
(* C28: after the user has stopped recognition (safeStop, then the end     *)
(* event of the recognizer), recognition is not started again by a restart *)
(* timer, neither by the 750 ms timer of onend nor by a 1500 ms timer that *)
(* an earlier 'no-speech' or 'audio-capture' error has left pending, until *)
(* the user presses Start: the recognizer stays idle.                      *)
(***************************************************************************)
C28_NoRestartAfterUserStop ==
    speech.userStop = "ended"
      => ~(speech.recognizer # "idle" /\ speech.startedBy \in {"onend", "onerror"})

=============================================================================
